---- MODULE Spec2Model ----
(***************************************************************************)
(* gpstime: leap-second table management and UNIX <-> GPS conversion.      *)
(*                                                                         *)
(* Timestamps are whole seconds.  unix2gps and gps2unix cast their         *)
(* argument to float; every value used here is far below 2^53, where the   *)
(* float arithmetic of +1, -1 and < is exact, so integers model it.        *)
(***************************************************************************)
EXTENDS Integers, Sequences, FiniteSets, TLC

VARIABLES
    now,              \* time.time(), whole seconds
    env_leapfile,     \* os.getenv('IETF_LEAPFILE'): "" or a path
    dir,              \* file system: path -> inode number, 0 when absent
    inode,            \* inode number -> content, a sequence of lines
    module,           \* gpstime module: "unloaded", "loaded", "raised"
    LEAPDATA,         \* gpstime.LEAPDATA: sequence of <<unix, offset>>
    LEAPDATA_EXPIRE,  \* gpstime.LEAPDATA_EXPIRE
    tried,            \* paths parsed by the last resolution, in order
    leaps,            \* leaps.LEAPDATA, the LeapData object: state, data,
                      \* expires, and the paths its constructor loaded
    proc,             \* per process: the fetch it is running
    call,             \* the conversion call that returned last: op, arg, ret
    prev,             \* the conversion call before it
    verdict,          \* the last expiry test: where, on which expiry, at
                      \* what time, and whether it took the table as expired
    upd,              \* the refresh call in progress or returned last
    cli,              \* the command-line run (__main__.main)
    gt,               \* the gpstime object constructed last
    tzlocal,          \* UTC offset of tzlocal(), seconds
    parsed            \* the parser call that returned last

fsvars == <<dir, inode>>
tablevars == <<module, LEAPDATA, LEAPDATA_EXPIRE, tried, leaps>>
callvars == <<call, prev>>
sessionvars == <<verdict, upd, cli, gt, tzlocal, parsed>>
vars == <<now, env_leapfile, dir, inode, module, LEAPDATA, LEAPDATA_EXPIRE,
          tried, leaps, proc, call, prev, verdict, upd, cli, gt, tzlocal,
          parsed>>

(***************************************************************************)
(* Bounds of the model.                                                    *)
(***************************************************************************)
Span == 4        \* leap events fall in GPS0+1 .. GPS0+Span
MaxLeaps == 3    \* events in a bounded table
MaxTicks == 2    \* seconds the clock advances
NInodes == 8     \* inodes of the file system
NProcs == 2      \* processes sharing the user cache
MaxFetches == 1  \* fetches a process runs
MaxLines == 3    \* lines of a document handed to a parser

(***************************************************************************)
(* Constants of the program.                                               *)
(***************************************************************************)
GPS0 == 315964800

\* The NTP epoch is 2208988800 s before the UNIX epoch.  NTP timestamps of
\* the bulletin exceed 2^31, so a timestamp n is held as <<hi, lo>> with
\* n = hi * NTP_SPLIT + lo, and 2208988800 = NTP_UNIX_HI * NTP_SPLIT +
\* NTP_UNIX_LO.
NTP_SPLIT == 100000
NTP_UNIX_HI == 22089
NTP_UNIX_LO == 88800

LEAPFILES == <<"USER", "SYS", "PAK">>
\* leaps.py: LEAPFILE_NIST, LEAPFILE_IETF; LEAPFILE_IETF_USER is "USER"
Paths == {"USER", "USER.tmp", "SYS", "PAK", "ENV", "NIST", "IETF"}
Procs == 1..NProcs
NoFiles == [p \in Paths |-> 0]
NoInodes == [n \in 1..NInodes |-> <<>>]

(***************************************************************************)
(* Lines of a leap-seconds.list document.                                  *)
(*   expires  "#@ <ntp>"                                                   *)
(*   comment  any other line starting with "#"                             *)
(*   row      "<ntp> <offset> # ..."                                       *)
(*   junk     a line not starting with "#" whose fields are not numbers    *)
(*   blank    an empty line                                                *)
(*   expires_bad  "#@ <not a number>"                                      *)
(*   rowx     "<ntp> <not a number> # ..."                                 *)
(***************************************************************************)
Comment == [kind |-> "comment", ntp |-> <<0, 0>>, offset |-> 0]
Blank == [kind |-> "blank", ntp |-> <<0, 0>>, offset |-> 0]
Junk == [kind |-> "junk", ntp |-> <<0, 0>>, offset |-> 0]
Expires(hi, lo) == [kind |-> "expires", ntp |-> <<hi, lo>>, offset |-> 0]
Row(hi, lo, off) == [kind |-> "row", ntp |-> <<hi, lo>>, offset |-> off]
BadExpires == [kind |-> "expires_bad", ntp |-> <<0, 0>>, offset |-> 0]
RowBadOffset(hi, lo) == [kind |-> "rowx", ntp |-> <<hi, lo>>, offset |-> 0]

\* int(c) - 2208988800
ietf_c_to_unix(c) == (c[1] - NTP_UNIX_HI) * NTP_SPLIT + (c[2] - NTP_UNIX_LO)

\* __ietf_parse_leapfile without the "unix > GPS0" filter.
ietf_parse_lines_nofilter(lines) ==
    LET RECURSIVE scan(_, _, _)
        scan(i, data, expire) ==
            IF i > Len(lines) THEN [ok |-> TRUE, data |-> data, expires |-> expire]
            ELSE LET line == lines[i] IN
                 CASE line.kind = "expires" ->
                        scan(i + 1, data, ietf_c_to_unix(line.ntp))
                   [] line.kind \in {"comment", "nist_expires"} ->
                        scan(i + 1, data, expire)
                   [] line.kind = "row" ->
                        scan(i + 1,
                             Append(data, <<ietf_c_to_unix(line.ntp), line.offset>>),
                             expire)
                   [] OTHER -> [ok |-> FALSE, data |-> <<>>, expires |-> 0]
    IN scan(1, <<>>, 0)

\* The loop of __ietf_parse_leapfile over the lines of an existing file.
\* A junk or blank line raises (int() of a non-number, sl[0] of an empty
\* split), and so does an expiry or an offset that is not a number: ok is
\* FALSE.
RECURSIVE ietf_parse_scan(_, _, _, _)
ietf_parse_scan(lines, i, data, expire) ==
    IF i > Len(lines) THEN [ok |-> TRUE, data |-> data, expires |-> expire]
    ELSE LET line == lines[i] IN
         CASE line.kind = "expires" ->
                ietf_parse_scan(lines, i + 1, data, ietf_c_to_unix(line.ntp))
           [] line.kind \in {"comment", "nist_expires"} ->
                ietf_parse_scan(lines, i + 1, data, expire)
           [] line.kind = "row" ->
                LET unix == ietf_c_to_unix(line.ntp) IN
                ietf_parse_scan(lines, i + 1,
                                IF unix > GPS0
                                THEN Append(data, <<unix, line.offset>>)
                                ELSE data,
                                expire)
           [] OTHER -> [ok |-> FALSE, data |-> <<>>, expires |-> 0]

ietf_parse_lines(lines) == ietf_parse_scan(lines, 1, <<>>, 0)

\* __ietf_parse_leapfile with open() raising on a missing file, as in
\* load_IETF.
ietf_parse_leapfile_open(d, ino, leapfile) ==
    IF d[leapfile] = 0 THEN [ok |-> FALSE, data |-> <<>>, expires |-> 0]
    ELSE ietf_parse_lines(ino[d[leapfile]])

\* __ietf_parse_leapfile(leapfile) on the file system d, ino: a missing
\* file gives an empty table with expiry 0.
ietf_parse_leapfile(d, ino, leapfile) ==
    IF d[leapfile] = 0 THEN [ok |-> TRUE, data |-> <<>>, expires |-> 0]
    ELSE ietf_parse_lines(ino[d[leapfile]])

\* values before anything ran: no call returned, no LeapData object, no
\* fetch, an empty file system
NoCall == [op |-> "none", arg |-> 0, ret |-> 0]
NoLeapData == [state |-> "unloaded", data |-> <<>>, expires |-> 0,
               tried |-> <<>>]
NoFetch == [pc |-> "off", impl |-> "", ok |-> FALSE, body |-> <<>>,
            fd |-> 0, off |-> 0, runs |-> 0,
            res |-> [data |-> <<>>, expires |-> 0]]
\* no expiry test made, no refresh called, no command-line run, no gpstime
\* object, no parser called
NoVerdict == [place |-> "none", expires |-> 0, at |-> 0, expired |-> FALSE]
NoUpdate == [caller |-> "none", via |-> "none", pc |-> "idle",
             fetched |-> FALSE, exc |-> "none"]
NoMain == [pc |-> "off", ietf_update |-> "", warned |-> FALSE]
NoInput == [type |-> "none", chars |-> <<>>, val |-> 0]
NoInstant == [made |-> "none", input |-> NoInput, unix |-> 0, tz |-> 0]
NoParse == [parser |-> "none", path |-> "", ret |-> [ok |-> TRUE,
            data |-> <<>>, expires |-> 0]]

InitSession ==
    /\ verdict = NoVerdict
    /\ upd = NoUpdate
    /\ cli = NoMain
    /\ gt = NoInstant
    /\ tzlocal = 0
    /\ parsed = NoParse

\* The loop of leaps.load_IETF: blank lines and comments are skipped, the
\* first remaining line is dropped unread, every later one must start with
\* a number (its offset is split off and never read); rows are kept
\* whatever their date.
RECURSIVE load_IETF_scan(_, _, _, _, _)
load_IETF_scan(lines, i, data, expires, first) ==
    IF i > Len(lines) THEN [ok |-> TRUE, data |-> data, expires |-> expires]
    ELSE LET line == lines[i] IN
         CASE line.kind = "blank" ->
                load_IETF_scan(lines, i + 1, data, expires, first)
           [] line.kind = "expires" ->
                load_IETF_scan(lines, i + 1, data, ietf_c_to_unix(line.ntp),
                               first)
           [] line.kind = "expires_bad" ->
                [ok |-> FALSE, data |-> <<>>, expires |-> 0]
           [] line.kind \in {"comment", "nist_expires"} ->
                load_IETF_scan(lines, i + 1, data, expires, first)
           [] OTHER ->
                IF first
                THEN load_IETF_scan(lines, i + 1, data, expires, FALSE)
                ELSE IF line.kind \in {"row", "rowx"}
                THEN load_IETF_scan(lines, i + 1,
                                    Append(data, ietf_c_to_unix(line.ntp)),
                                    expires, first)
                ELSE [ok |-> FALSE, data |-> <<>>, expires |-> 0]

load_IETF_lines(lines) == load_IETF_scan(lines, 1, <<>>, 0, TRUE)

\* leaps.load_IETF(path): open() raises when the file is missing.
load_IETF(d, ino, path) ==
    IF d[path] = 0 THEN [ok |-> FALSE, data |-> <<>>, expires |-> 0]
    ELSE load_IETF_lines(ino[d[path]])

(***************************************************************************)
(* The tabular format of /usr/share/zoneinfo/leapseconds.                  *)
(*   nist_expires  "#expires <unix>"                                       *)
(*   leap          "Leap <year> <mon> <day> <hh:mm:ss> <corr> <R/S>"       *)
(* and comment, blank and junk lines as above.  A line carries its date as *)
(* <<year, month name, day, hour, minute, second>> in ntp.                 *)
(***************************************************************************)
NistExpires(unix) == [kind |-> "nist_expires", ntp |-> <<unix>>, offset |-> 0]
Leap(y, mon, d, hh, mm, ss) ==
    [kind |-> "leap", ntp |-> <<y, mon, d, hh, mm, ss>>, offset |-> 1]

\* %b of time.strptime
MonthNumber(mon) ==
    CASE mon = "Jan" -> 1 [] mon = "Feb" -> 2 [] mon = "Mar" -> 3
      [] mon = "Apr" -> 4 [] mon = "May" -> 5 [] mon = "Jun" -> 6
      [] mon = "Jul" -> 7 [] mon = "Aug" -> 8 [] mon = "Sep" -> 9
      [] mon = "Oct" -> 10 [] mon = "Nov" -> 11 [] mon = "Dec" -> 12

\* days from 1970-01-01 to the civil date y-m-d (proleptic Gregorian)
DaysFromCivil(y, m, d) ==
    LET yy == IF m <= 2 THEN y - 1 ELSE y
        era == yy \div 400
        yoe == yy - era * 400
        mp == IF m > 2 THEN m - 3 ELSE m + 9
        doy == (153 * mp + 2) \div 5 + d - 1
        doe == yoe * 365 + yoe \div 4 - yoe \div 100 + doy
    IN era * 146097 + doe - 719468

\* calendar.timegm(time.strptime(..., '%Y %b %d %H:%M:%S')): second 60
\* runs over into the next minute
timegm(t) ==
    ((DaysFromCivil(t[1], MonthNumber(t[2]), t[3]) * 24 + t[4]) * 60 + t[5]) * 60
        + t[6]

\* The loop of leaps.load_NIST.
RECURSIVE load_NIST_scan(_, _, _, _)
load_NIST_scan(lines, i, data, expires) ==
    IF i > Len(lines) THEN [ok |-> TRUE, data |-> data, expires |-> expires]
    ELSE LET line == lines[i] IN
         CASE line.kind = "blank" -> load_NIST_scan(lines, i + 1, data, expires)
           [] line.kind = "nist_expires" ->
                load_NIST_scan(lines, i + 1, data, line.ntp[1])
           [] line.kind \in {"comment", "expires", "expires_bad"} ->
                load_NIST_scan(lines, i + 1, data, expires)
           [] line.kind = "leap" ->
                load_NIST_scan(lines, i + 1, Append(data, timegm(line.ntp)),
                               expires)
           [] OTHER -> [ok |-> FALSE, data |-> <<>>, expires |-> 0]

load_NIST(d, ino, path) ==
    IF d[path] = 0 THEN [ok |-> FALSE, data |-> <<>>, expires |-> 0]
    ELSE load_NIST_scan(ino[d[path]], 1, <<>>, 0)

(***************************************************************************)
(* LeapData: expired, and the constructor, which loads LEAPFILE_NIST, then *)
(* LEAPFILE_IETF, then LEAPFILE_IETF_USER, each only if it exists and, for *)
(* the second and third, only while there is no data or it is expired.     *)
(* _load turns any exception of the loader into RuntimeError, which the    *)
(* constructor does not catch.                                             *)
(***************************************************************************)
\* expired with the comparison of the IETF_LEAPFILE branch of
\* __load_leapdata
expired_ge(expires, t) == expires >= t

expired(expires, t) == expires <= t

LeapData_load(acc, d, path, r) ==
    IF ~r.ok
    THEN [acc EXCEPT !.state = "raised", !.tried = Append(@, path)]
    ELSE [state |-> "loaded", data |-> r.data, expires |-> r.expires,
          tried |-> Append(acc.tried, path)]

LeapData_init(d, ino, t) ==
    LET s0 == [NoLeapData EXCEPT !.state = "loaded"]
        s1 == IF d["NIST"] # 0
              THEN LeapData_load(s0, d, "NIST", load_NIST(d, ino, "NIST"))
              ELSE s0
        s2 == IF /\ s1.state # "raised"
                 /\ (s1.data = <<>> \/ expired(s1.expires, t))
                 /\ d["IETF"] # 0
              THEN LeapData_load(s1, d, "IETF", load_IETF(d, ino, "IETF"))
              ELSE s1
        s3 == IF /\ s2.state # "raised"
                 /\ (s2.data = <<>> \/ expired(s2.expires, t))
                 /\ d["USER"] # 0
              THEN LeapData_load(s2, d, "USER", load_IETF(d, ino, "USER"))
              ELSE s2
    IN s3

(***************************************************************************)
(* The IETF bulletin leap-seconds.list as published with the 2017-01-01    *)
(* leap second ("#@ 3707596800", expiring 2017-06-28): the document behind *)
(* LEAPFILE_IETF and the packaged copy LEAPFILE_PAK.                       *)
(***************************************************************************)
IETF_BULLETIN ==
    << Comment, Expires(37075, 96800), Comment,
       Row(22720, 60800, 10),
       Row(22877, 85600, 11),
       Row(23036, 83200, 12),
       Row(23352, 19200, 13),
       Row(23667, 55200, 14),
       Row(23982, 91200, 15),
       Row(24299, 13600, 16),
       Row(24614, 49600, 17),
       Row(24929, 85600, 18),
       Row(25245, 21600, 19),
       Row(25717, 82400, 20),
       Row(26033, 18400, 21),
       Row(26348, 54400, 22),
       Row(26980, 12800, 23),
       Row(27769, 82400, 24),
       Row(28401, 40800, 25),
       Row(28716, 76800, 26),
       Row(29189, 37600, 27),
       Row(29504, 73600, 28),
       Row(29820, 9600, 29),
       Row(30294, 43200, 30),
       Row(30767, 4000, 31),
       Row(31241, 37600, 32),
       Row(33450, 62400, 33),
       Row(34397, 56800, 34),
       Row(35500, 89600, 35),
       Row(36446, 97600, 36),
       Row(36922, 17600, 37),
       Comment >>

(***************************************************************************)
(* __load_leapdata: with IETF_LEAPFILE set, that file alone is parsed and  *)
(* kept whatever its expiry; otherwise LEAPFILES are parsed in order and   *)
(* the first with expire >= now ends the loop.  A parse that raises leaves *)
(* the globals as the earlier iterations set them.                         *)
(***************************************************************************)
\* the loop over LEAPFILES without the return on an unexpired file
load_leapfiles_noreturn(d, ino, t, files, i0, data0, expire0, seen0) ==
    LET RECURSIVE scan(_, _, _, _)
        scan(i, data, expire, seen) ==
            IF i > Len(files)
            THEN [raised |-> FALSE, found |-> FALSE, data |-> data,
                  expire |-> expire, tried |-> seen]
            ELSE LET r == ietf_parse_leapfile(d, ino, files[i]) IN
                 IF ~r.ok
                 THEN [raised |-> TRUE, found |-> FALSE, data |-> data,
                       expire |-> expire, tried |-> Append(seen, files[i])]
                 ELSE scan(i + 1, r.data, r.expires, Append(seen, files[i]))
    IN scan(i0, data0, expire0, seen0)

RECURSIVE load_leapfiles(_, _, _, _, _, _, _, _)
load_leapfiles(d, ino, t, files, i, data, expire, seen) ==
    IF i > Len(files)
    THEN [raised |-> FALSE, found |-> FALSE, data |-> data,
          expire |-> expire, tried |-> seen]
    ELSE LET r == ietf_parse_leapfile(d, ino, files[i]) IN
         IF ~r.ok
         THEN [raised |-> TRUE, found |-> FALSE, data |-> data,
               expire |-> expire, tried |-> Append(seen, files[i])]
         ELSE IF r.expires >= t
         THEN [raised |-> FALSE, found |-> TRUE, data |-> r.data,
               expire |-> r.expires, tried |-> Append(seen, files[i])]
         ELSE load_leapfiles(d, ino, t, files, i + 1, r.data, r.expires,
                             Append(seen, files[i]))

load_leapdata(d, ino, env, t, data0, expire0) ==
    IF env # ""
    THEN LET r == ietf_parse_leapfile(d, ino, env) IN
         IF ~r.ok
         THEN [raised |-> TRUE, found |-> FALSE, data |-> data0,
               expire |-> expire0, tried |-> <<env>>]
         ELSE [raised |-> FALSE, found |-> TRUE, data |-> r.data,
               expire |-> r.expires, tried |-> <<env>>]
    ELSE load_leapfiles(d, ino, t, LEAPFILES, 1, data0, expire0, <<>>)

\* Whether __load_leapdata(update=False), having come to its result r
\* without raising, warns that the leap second data is expired: with
\* IETF_LEAPFILE set the warning is given when LEAPDATA_EXPIRE >= now,
\* without it when no file of LEAPFILES ended the loop.
load_leapdata_warns(env, r, t) ==
    IF env # "" THEN r.expire >= t ELSE ~r.found

(***************************************************************************)
(* unix2gps: gps = unix - GPS0; scan the table in order, stop at the first *)
(* event with unix < leap, add 1 for every event passed.                   *)
(***************************************************************************)
RECURSIVE unix2gps_scan(_, _, _, _)
unix2gps_scan(unix, gps, table, i) ==
    IF i > Len(table) THEN gps
    ELSE IF unix < table[i][1] THEN gps
    ELSE unix2gps_scan(unix, gps + 1, table, i + 1)

\* unix2gps with the boundary test slipped to "unix <= leap".
unix2gps_le(unix, table) ==
    LET RECURSIVE scan(_, _)
        scan(gps, i) ==
            IF i > Len(table) THEN gps
            ELSE IF unix <= table[i][1] THEN gps
            ELSE scan(gps + 1, i + 1)
    IN scan(unix - GPS0, 1)

\* unix2gps with gps2unix's "-= 1" in place of "+= 1".
unix2gps_minus(unix, table) ==
    LET RECURSIVE scan(_, _)
        scan(gps, i) ==
            IF i > Len(table) THEN gps
            ELSE IF unix < table[i][1] THEN gps
            ELSE scan(gps - 1, i + 1)
    IN scan(unix - GPS0, 1)

unix2gps(unix, table) == unix2gps_scan(unix, unix - GPS0, table, 1)

(***************************************************************************)
(* gps2unix: unix = gps + GPS0; scan the table in order, stop at the first *)
(* event with unix < leap (unix as decremented so far), subtract 1 for     *)
(* every event passed.                                                     *)
(***************************************************************************)
RECURSIVE gps2unix_scan(_, _, _)
gps2unix_scan(unix, table, i) ==
    IF i > Len(table) THEN unix
    ELSE IF unix < table[i][1] THEN unix
    ELSE gps2unix_scan(unix - 1, table, i + 1)

\* gps2unix comparing every event against the undecremented gps + GPS0.
gps2unix_fixed(gps, table) ==
    LET RECURSIVE scan(_, _)
        scan(unix, i) ==
            IF i > Len(table) THEN unix
            ELSE IF gps + GPS0 < table[i][1] THEN unix
            ELSE scan(unix - 1, i + 1)
    IN scan(gps + GPS0, 1)

gps2unix(gps, table) == gps2unix_scan(gps + GPS0, table, 1)

(***************************************************************************)
(* The gpstime class.  A gpstime object is an aware datetime: the absolute *)
(* instant unix (what timestamp() returns) and the UTC offset tz of its    *)
(* tzinfo; its fields (year .. second) are the wall clock unix + tz.       *)
(* An argument of parse is a str, held as its sequence of characters, or   *)
(* an int (the regression tests pass an int).                              *)
(***************************************************************************)
StrArg(chars) == [type |-> "str", chars |-> chars, val |-> 0]
IntArg(n) == [type |-> "int", chars |-> <<>>, val |-> n]
NowArg == StrArg(<<"n", "o", "w">>)

IsDigit(c) == c \in {"0", "1", "2", "3", "4", "5", "6", "7", "8", "9"}
DigitValue(c) ==
    CASE c = "0" -> 0 [] c = "1" -> 1 [] c = "2" -> 2 [] c = "3" -> 3
      [] c = "4" -> 4 [] c = "5" -> 5 [] c = "6" -> 6 [] c = "7" -> 7
      [] c = "8" -> 8 [] c = "9" -> 9
AllDigits(chars) == \A i \in DOMAIN chars : IsDigit(chars[i])

RECURSIVE DigitsValue(_, _)
DigitsValue(chars, acc) ==
    IF chars = <<>> THEN acc
    ELSE DigitsValue(Tail(chars), acc * 10 + DigitValue(Head(chars)))

\* float(string): an int converts; a str converts when it is an optional
\* sign, digits and at most one ".", with a digit somewhere.  The
\* fractions of the strings used here are zero, so the value is the signed
\* whole part (-0.0 is 0).  Exponents, "inf", "nan" and surrounding blanks
\* are not among the inputs.  ok = FALSE is ValueError.
float(string) ==
    IF string.type = "int" THEN [ok |-> TRUE, val |-> string.val]
    ELSE LET chars == string.chars
             signed == chars # <<>> /\ chars[1] \in {"+", "-"}
             body == IF signed THEN Tail(chars) ELSE chars
             dots == { i \in DOMAIN body : body[i] = "." }
             dot == IF dots = {} THEN Len(body) + 1
                    ELSE CHOOSE i \in dots : TRUE
             whole == SubSeq(body, 1, dot - 1)
             frac == SubSeq(body, dot + 1, Len(body))
             mag == DigitsValue(whole, 0)
         IN IF /\ Cardinality(dots) <= 1
               /\ AllDigits(whole)
               /\ AllDigits(frac)
               /\ Len(whole) + Len(frac) >= 1
            THEN [ok |-> TRUE,
                  val |-> IF signed /\ chars[1] = "-" THEN 0 - mag ELSE mag]
            ELSE [ok |-> FALSE, val |-> 0]

\* cudate(string): "date +%s.%N -d string" of GNU coreutils, for the forms
\* of string used here: "@<digits>" is that UNIX timestamp; one or two
\* digits are an hour of today on the local wall clock ("0" is today's
\* midnight); the date of the regression tests; anything else, "0.0", "-0"
\* and a ten-digit number included, makes date exit non-zero, which raises
\* GPSTimeException (ok = FALSE).
TestDate ==
    << "D", "e", "c", " ", "0", "8", " ", "2", "0", "1", "5", " ",
       "0", "4", ":", "5", "4", ":", "1", "9", " ", "U", "T", "C" >>

cudate(string, t, tz) ==
    LET chars == string.chars IN
    IF Len(chars) >= 2 /\ chars[1] = "@" /\ AllDigits(Tail(chars))
    THEN [ok |-> TRUE, ts |-> DigitsValue(Tail(chars), 0)]
    ELSE IF /\ Len(chars) \in {1, 2}
            /\ AllDigits(chars)
            /\ DigitsValue(chars, 0) <= 23
    THEN [ok |-> TRUE,
          ts |-> ((t + tz) \div 86400) * 86400 - tz
                     + DigitsValue(chars, 0) * 3600]
    ELSE IF chars = TestDate THEN [ok |-> TRUE, ts |-> 1449550459]
    ELSE [ok |-> FALSE, ts |-> 0]

\* gpstime.fromgps(gps): utcfromtimestamp(gps2unix(gps)) with tzinfo UTC
fromgps(gps, table) ==
    [made |-> "fromgps", unix |-> gps2unix(gps, table), tz |-> 0]

\* gpstime.parse(string) at time t with local offset tz: "not string" holds
\* for the empty str and for the int 0; "if gps" fails for None and for
\* zero.
parse(string, t, tz, table) ==
    LET str == IF string \in {StrArg(<<>>), IntArg(0)} THEN NowArg
               ELSE string
        gps == float(str)
    IN IF gps.ok /\ gps.val # 0 THEN fromgps(gps.val, table)
       ELSE IF str = NowArg
       THEN [made |-> "now", unix |-> t, tz |-> tz]
       ELSE LET ts == cudate(str, t, tz) IN
            IF ts.ok THEN [made |-> "cudate", unix |-> ts.ts, tz |-> tz]
            ELSE [made |-> "GPSTimeException", unix |-> 0, tz |-> 0]

\* civil date <<year, month, day>> of a day count from 1970-01-01
CivilFromDays(days) ==
    LET z == days + 719468
        era == z \div 146097
        doe == z - era * 146097
        yoe == (doe - doe \div 1460 + doe \div 36524 - doe \div 146096) \div 365
        doy == doe - (365 * yoe + yoe \div 4 - yoe \div 100)
        mp == (5 * doy + 2) \div 153
        d == doy - (153 * mp + 2) \div 5 + 1
        m == IF mp < 10 THEN mp + 3 ELSE mp - 9
        y == yoe + era * 400 + (IF m <= 2 THEN 1 ELSE 0)
    IN <<y, m, d>>

\* strftime('%Y-%m-%dT%H:%M:%S.%fZ') on the object's own fields: the text
\* as its fields <<year, month, day, hour, minute, second, microsecond>>
\* and the literal suffix
strftime_ISO_FORMAT(wall) ==
    LET date == CivilFromDays(wall \div 86400)
        sod == wall % 86400
    IN <<date[1], date[2], date[3], sod \div 3600, (sod % 3600) \div 60,
         sod % 60, 0, "Z">>

iso(g) == strftime_ISO_FORMAT(g.unix + g.tz)

\* dt2ts(dt): astimezone(tzutc()) minus the epoch, in seconds
dt2ts(g) == g.unix

(***************************************************************************)
(* Bounded leap tables: every non-decreasing sequence of at most MaxLeaps  *)
(* instants in GPS0+1 .. GPS0+Span, the k-th with offset 19+k (TAI-UTC was *)
(* 19 s at the GPS epoch).                                                 *)
(***************************************************************************)
Instants == (GPS0 + 1) .. (GPS0 + Span)

SortedSeqs ==
    UNION { { s \in [1..n -> Instants] : \A i \in 1..(n-1) : s[i] <= s[i+1] }
            : n \in 0..MaxLeaps }

MkTable(s) == [i \in 1..Len(s) |-> <<s[i], 19 + i>>]

BoundedTables == { MkTable(s) : s \in SortedSeqs }

StrictlyIncreasing(table) ==
    \A i \in 1..(Len(table) - 1) : table[i][1] < table[i+1][1]

UnixInputs == (GPS0 - 1) .. (GPS0 + Span + 2)
GpsInputs == 0 .. (Span + MaxLeaps + 2)

(***************************************************************************)
(* Conversion calls on a loaded table.                                     *)
(***************************************************************************)

InitConv ==
    /\ now = GPS0 + Span + 5
    /\ env_leapfile = ""
    /\ dir = NoFiles
    /\ inode = NoInodes
    /\ module = "loaded"
    /\ LEAPDATA \in BoundedTables
    /\ LEAPDATA_EXPIRE = GPS0 + Span + 10
    /\ tried = <<>>
    /\ leaps = NoLeapData
    /\ proc = [p \in Procs |-> NoFetch]
    /\ call = NoCall
    /\ prev = NoCall
    /\ InitSession

\* Import of the module: __load_leapdata(update=False) run to its end.
Import ==
    /\ module = "unloaded"
    /\ LET r == load_leapdata(dir, inode, env_leapfile, now,
                              LEAPDATA, LEAPDATA_EXPIRE) IN
       /\ module' = IF r.raised THEN "raised" ELSE "loaded"
       /\ LEAPDATA' = r.data
       /\ LEAPDATA_EXPIRE' = r.expire
       /\ tried' = r.tried
       /\ verdict' = IF r.raised THEN verdict
                     ELSE [place |-> "__load_leapdata", expires |-> r.expire,
                           at |-> now,
                           expired |-> load_leapdata_warns(env_leapfile, r, now)]
    /\ UNCHANGED <<now, env_leapfile, fsvars, leaps, proc, callvars, upd, cli,
                   gt, tzlocal, parsed>>

CallUnix2gps(u) ==
    /\ module = "loaded"
    /\ call' = [op |-> "unix2gps", arg |-> u, ret |-> unix2gps(u, LEAPDATA)]
    /\ prev' = call
    /\ UNCHANGED <<sessionvars, now, env_leapfile, fsvars, proc, tablevars>>

CallGps2unix(g) ==
    /\ module = "loaded"
    /\ call' = [op |-> "gps2unix", arg |-> g, ret |-> gps2unix(g, LEAPDATA)]
    /\ prev' = call
    /\ UNCHANGED <<sessionvars, now, env_leapfile, fsvars, proc, tablevars>>

\* fromgps(x.gps()) and x.gps() after fromgps(g): the argument is the
\* value the previous call returned.
CallChained ==
    /\ module = "loaded"
    /\ call.op \in {"unix2gps", "gps2unix"}
    /\ IF call.op = "gps2unix"
       THEN call' = [op |-> "unix2gps", arg |-> call.ret,
                     ret |-> unix2gps(call.ret, LEAPDATA)]
       ELSE call' = [op |-> "gps2unix", arg |-> call.ret,
                     ret |-> gps2unix(call.ret, LEAPDATA)]
    /\ prev' = call
    /\ UNCHANGED <<sessionvars, now, env_leapfile, fsvars, proc, tablevars>>

NextConv ==
    \/ \E u \in UnixInputs : CallUnix2gps(u)
    \/ \E g \in GpsInputs : CallGps2unix(g)
    \/ CallChained

SpecConv == InitConv /\ [][NextConv]_vars

(***************************************************************************)
(* The module imported with the published bulletin as its packaged file,   *)
(* and the conversions of the regression tests.                            *)
(***************************************************************************)
IETFUnixInputs == {1449550459, 439421586, 741484798, 741484799, 741484800}
IETFGpsInputs == {1133585676, 123456789,
                  425520006, 425520007, 425520008, 425520009}

InitIETF ==
    /\ now \in {1483228800, 1498608000}
    /\ env_leapfile = ""
    /\ \E user \in {0, 2} :
          dir = [NoFiles EXCEPT !["PAK"] = 1, !["USER"] = user]
    /\ inode = [NoInodes EXCEPT ![1] = IETF_BULLETIN, ![2] = IETF_BULLETIN]
    /\ module = "unloaded"
    /\ LEAPDATA = <<>>
    /\ LEAPDATA_EXPIRE = 0
    /\ tried = <<>>
    /\ leaps = NoLeapData
    /\ proc = [p \in Procs |-> NoFetch]
    /\ call = NoCall
    /\ prev = NoCall
    /\ InitSession

NextIETF ==
    \/ Import
    \/ \E u \in IETFUnixInputs : CallUnix2gps(u)
    \/ \E g \in IETFGpsInputs : CallGps2unix(g)
    \/ CallChained

SpecIETF == InitIETF /\ [][NextIETF]_vars

(***************************************************************************)
(* gpstime objects made by parse and fromgps on the table of the published *)
(* bulletin, in a process whose local zone is UTC, UTC+1 or UTC-7, and     *)
(* their gps() and iso().                                                  *)
(***************************************************************************)
LocalZones == {0, 3600, 0 - 25200}
InstantClock == {1449550500, 1498607999}
ParseInputs ==
    { StrArg(<<>>), NowArg, StrArg(<<"0">>), StrArg(<<"0", ".", "0">>),
      StrArg(<<"-", "0">>), IntArg(0), IntArg(1133585676),
      StrArg(<<"1", "1", "3", "3", "5", "8", "5", "6", "7", "6">>),
      StrArg(<<"@", "1", "4", "4", "9", "5", "5", "0", "4", "5", "9">>),
      StrArg(TestDate), StrArg(<<"1", "2">>), StrArg(<<"s", "o", "o", "n">>) }
FromgpsInputs == {1133585676, 425520008}

InitInstant ==
    /\ now \in InstantClock
    /\ env_leapfile = ""
    /\ dir = NoFiles
    /\ inode = NoInodes
    /\ module = "loaded"
    /\ LEAPDATA = ietf_parse_lines(IETF_BULLETIN).data
    /\ LEAPDATA_EXPIRE = ietf_parse_lines(IETF_BULLETIN).expires
    /\ tried = <<>>
    /\ leaps = NoLeapData
    /\ proc = [p \in Procs |-> NoFetch]
    /\ call = NoCall
    /\ prev = NoCall
    /\ verdict = NoVerdict
    /\ upd = NoUpdate
    /\ cli = NoMain
    /\ gt = NoInstant
    /\ tzlocal \in LocalZones
    /\ parsed = NoParse

Made(g, string) ==
    /\ gt' = [made |-> g.made, input |-> string, unix |-> g.unix, tz |-> g.tz]
    /\ UNCHANGED <<now, env_leapfile, fsvars, tablevars, proc, callvars,
                   verdict, upd, cli, tzlocal, parsed>>

\* gt = gpstime.parse(string)
CallParse(string) ==
    /\ module = "loaded"
    /\ Made(parse(string, now, tzlocal, LEAPDATA), string)

\* gt = gpstime.fromgps(gps)
CallFromgps(gps) ==
    /\ module = "loaded"
    /\ Made(fromgps(gps, LEAPDATA), NoInput)

\* gt.gps(): unix2gps(self.timestamp()) on the table that is LEAPDATA when
\* the call is made
CallGps ==
    /\ module = "loaded"
    /\ gt.made \notin {"none", "GPSTimeException"}
    /\ call' = [op |-> "gps", arg |-> dt2ts(gt),
                ret |-> unix2gps(dt2ts(gt), LEAPDATA)]
    /\ prev' = call
    /\ UNCHANGED <<sessionvars, now, env_leapfile, fsvars, proc, tablevars>>

\* gt.iso()
CallIso ==
    /\ gt.made \notin {"none", "GPSTimeException"}
    /\ call' = [op |-> "iso", arg |-> dt2ts(gt), ret |-> iso(gt)]
    /\ prev' = call
    /\ UNCHANGED <<sessionvars, now, env_leapfile, fsvars, proc, tablevars>>

NextInstant ==
    \/ \E string \in ParseInputs : CallParse(string)
    \/ \E gps \in FromgpsInputs : CallFromgps(gps)
    \/ CallGps
    \/ CallIso

SpecInstant == InitInstant /\ [][NextInstant]_vars

(***************************************************************************)
(* Documents of the bounded file system.  now runs from Now0, one second   *)
(* before the expiry of DocEdge.                                           *)
(***************************************************************************)
Now0 == 1498607999

\* expired 2016-06-28; one event (2015-07-01) after the bookkeeping row
DocStale == << Comment, Expires(36760, 60800),
               Row(22720, 60800, 10), Row(36446, 97600, 36) >>
\* expires 2017-06-28 = Now0 + 1
DocEdge == << Comment, Expires(37075, 96800),
              Row(22720, 60800, 10), Row(36446, 97600, 36),
              Row(36922, 17600, 37) >>
\* expires 2017-12-28
DocFresh == << Expires(37234, 8000), Row(22720, 60800, 10),
               Row(36446, 97600, 36), Row(36922, 17600, 37) >>
\* a response that is not a bulletin (an error page served with status 200)
DocJunk == << Junk, Junk >>

ServerDocs == {DocFresh, DocJunk}

(***************************************************************************)
(* The file system.  A path names an inode; an open file descriptor keeps  *)
(* its inode whatever the path names later.  An inode that no path and no  *)
(* descriptor refers to is free, with empty content.                       *)
(***************************************************************************)
Hole == [kind |-> "hole", ntp |-> <<0, 0>>, offset |-> 0]

Referenced(d, pr, n) ==
    \/ \E path \in Paths : d[path] = n
    \/ \E p \in Procs : pr[p].fd = n

FreeInodes == { n \in 1..NInodes : ~Referenced(dir, proc, n) }

LowestFree == CHOOSE n \in FreeInodes : \A m \in FreeInodes : n <= m

Reclaim(d, pr, ino) ==
    [n \in 1..NInodes |-> IF Referenced(d, pr, n) THEN ino[n] ELSE <<>>]

\* write(chunk) at offset off of a file: bytes past the end leave a hole.
WriteAt(content, off, chunk) ==
    IF off < Len(content) THEN [content EXCEPT ![off + 1] = chunk]
    ELSE content \o [i \in 1..(off - Len(content)) |-> Hole] \o <<chunk>>

(***************************************************************************)
(* The fetch of the bulletin into the user cache, one step per action:     *)
(* leaps.fetch_ietf_leapfile (get, raise_for_status, write path+'.tmp',    *)
(* load_IETF(tmp), rename) and gpstime.__ietf_retrieve (the same without   *)
(* the parse).  The directory made by os.makedirs is not part of the       *)
(* state.                                                                  *)
(***************************************************************************)
Fetchers == {"fetch_ietf_leapfile", "__ietf_retrieve"}

SetProc(p, r) == proc' = [proc EXCEPT ![p] = r]

FetchStart(p, impl) ==
    /\ proc[p].pc = "idle"
    /\ proc[p].runs < MaxFetches
    /\ SetProc(p, [NoFetch EXCEPT !.pc = "get", !.impl = impl,
                                  !.runs = proc[p].runs + 1])
    /\ UNCHANGED <<sessionvars, now, env_leapfile, fsvars, tablevars, callvars>>

\* requests.get: a transport error raises; otherwise a response arrives.
HttpGetError(p) ==
    /\ proc[p].pc = "get"
    /\ SetProc(p, [proc[p] EXCEPT !.pc = "failed"])
    /\ UNCHANGED <<sessionvars, now, env_leapfile, fsvars, tablevars, callvars>>

HttpGet(p, ok, body) ==
    /\ proc[p].pc = "get"
    /\ SetProc(p, [proc[p] EXCEPT !.pc = "status", !.ok = ok, !.body = body])
    /\ UNCHANGED <<sessionvars, now, env_leapfile, fsvars, tablevars, callvars>>

RaiseForStatus(p) ==
    /\ proc[p].pc = "status"
    /\ SetProc(p, [proc[p] EXCEPT !.pc = IF proc[p].ok THEN "open"
                                         ELSE "failed"])
    /\ UNCHANGED <<sessionvars, now, env_leapfile, fsvars, tablevars, callvars>>

\* open(path+'.tmp', 'wb'): creates the file, or truncates the existing one
OpenTmp(p) ==
    /\ proc[p].pc = "open"
    /\ IF dir["USER.tmp"] # 0
       THEN /\ SetProc(p, [proc[p] EXCEPT !.pc = "write",
                                          !.fd = dir["USER.tmp"], !.off = 0])
            /\ inode' = [inode EXCEPT ![dir["USER.tmp"]] = <<>>]
            /\ dir' = dir
       ELSE /\ FreeInodes # {}
            /\ SetProc(p, [proc[p] EXCEPT !.pc = "write",
                                          !.fd = LowestFree, !.off = 0])
            /\ inode' = [inode EXCEPT ![LowestFree] = <<>>]
            /\ dir' = [dir EXCEPT !["USER.tmp"] = LowestFree]
    /\ UNCHANGED <<sessionvars, now, env_leapfile, tablevars, callvars>>

\* f.write(c) for the next part of the response
WriteChunk(p) ==
    /\ proc[p].pc = "write"
    /\ proc[p].off < Len(proc[p].body)
    /\ inode' = [inode EXCEPT ![proc[p].fd] =
                     WriteAt(@, proc[p].off, proc[p].body[proc[p].off + 1])]
    /\ SetProc(p, [proc[p] EXCEPT !.off = @ + 1])
    /\ UNCHANGED <<sessionvars, now, env_leapfile, dir, tablevars, callvars>>

\* iter_content raises before the response is complete; the with block
\* closes the file
StreamError(p) ==
    /\ proc[p].pc = "write"
    /\ proc[p].off < Len(proc[p].body)
    /\ SetProc(p, [proc[p] EXCEPT !.pc = "failed", !.fd = 0])
    /\ inode' = Reclaim(dir, proc', inode)
    /\ UNCHANGED <<sessionvars, now, env_leapfile, dir, tablevars, callvars>>

\* end of the with block
CloseTmp(p) ==
    /\ proc[p].pc = "write"
    /\ proc[p].off = Len(proc[p].body)
    /\ SetProc(p, [proc[p] EXCEPT
                     !.pc = IF proc[p].impl = "fetch_ietf_leapfile"
                            THEN "parse" ELSE "rename",
                     !.fd = 0])
    /\ inode' = Reclaim(dir, proc', inode)
    /\ UNCHANGED <<sessionvars, now, env_leapfile, dir, tablevars, callvars>>

\* data, expires = load_IETF(tmp)
ParseTmp(p) ==
    /\ proc[p].pc = "parse"
    /\ LET r == load_IETF(dir, inode, "USER.tmp") IN
       SetProc(p, [proc[p] EXCEPT
                     !.pc = IF r.ok THEN "rename" ELSE "failed",
                     !.res = [data |-> r.data, expires |-> r.expires]])
    /\ UNCHANGED <<sessionvars, now, env_leapfile, fsvars, tablevars, callvars>>

\* os.rename(tmp, path): raises when tmp is gone
RenameTmp(p) ==
    /\ proc[p].pc = "rename"
    /\ IF dir["USER.tmp"] = 0
       THEN /\ SetProc(p, [proc[p] EXCEPT !.pc = "failed"])
            /\ UNCHANGED fsvars
       ELSE /\ SetProc(p, [proc[p] EXCEPT !.pc = "done"])
            /\ dir' = [dir EXCEPT !["USER"] = dir["USER.tmp"],
                                  !["USER.tmp"] = 0]
            /\ inode' = Reclaim(dir', proc', inode)
    /\ UNCHANGED <<sessionvars, now, env_leapfile, tablevars, callvars>>

\* the process stops (killed, power loss) in the middle of a fetch
Crash(p) ==
    /\ proc[p].pc \in {"get", "status", "open", "write", "parse", "rename"}
    /\ SetProc(p, [proc[p] EXCEPT !.pc = "dead", !.fd = 0])
    /\ inode' = Reclaim(dir, proc', inode)
    /\ UNCHANGED <<sessionvars, now, env_leapfile, dir, tablevars, callvars>>

\* the fetch returned or raised to a caller that is not a refresh
FetchReturn(p) ==
    /\ proc[p].pc \in {"done", "failed"}
    /\ upd.pc # "fetching"
    /\ SetProc(p, [NoFetch EXCEPT !.pc = "idle", !.runs = proc[p].runs])
    /\ UNCHANGED <<sessionvars, now, env_leapfile, fsvars, tablevars, callvars>>

NextFetch ==
    \E p \in Procs :
        \/ \E impl \in Fetchers : FetchStart(p, impl)
        \/ HttpGetError(p)
        \/ \E ok \in BOOLEAN, body \in ServerDocs : HttpGet(p, ok, body)
        \/ RaiseForStatus(p)
        \/ OpenTmp(p)
        \/ WriteChunk(p)
        \/ StreamError(p)
        \/ CloseTmp(p)
        \/ ParseTmp(p)
        \/ RenameTmp(p)
        \/ Crash(p)
        \/ FetchReturn(p)

\* The user cache holds DocStale or does not exist; running[p] tells
\* whether process p exists.
InitFetch(running) ==
    /\ now = Now0
    /\ env_leapfile = ""
    /\ \E user \in {0, 1} : dir = [NoFiles EXCEPT !["USER"] = user]
    /\ inode = [n \in 1..NInodes |->
                   IF n = dir["USER"] THEN DocStale ELSE <<>>]
    /\ module = "loaded"
    /\ LEAPDATA = ietf_parse_leapfile(dir, inode, "USER").data
    /\ LEAPDATA_EXPIRE = ietf_parse_leapfile(dir, inode, "USER").expires
    /\ tried = <<"USER", "SYS", "PAK">>
    /\ leaps = NoLeapData
    /\ proc = [p \in Procs |-> IF running[p]
                               THEN [NoFetch EXCEPT !.pc = "idle"]
                               ELSE NoFetch]
    /\ call = NoCall
    /\ prev = NoCall
    /\ InitSession

InitFetchSolo == InitFetch([p \in Procs |-> p = 1])
InitFetchRace == InitFetch([p \in Procs |-> TRUE])

SpecFetchSolo == InitFetchSolo /\ [][NextFetch]_vars
SpecFetchRace == InitFetchRace /\ [][NextFetch]_vars

(***************************************************************************)
(* Resolution of the leap table at import, over every combination of the   *)
(* candidate files: import of gpstime (__load_leapdata), import of         *)
(* gpstime.leaps (LEAPDATA = LeapData()), the clock, and uses of the       *)
(* tables.                                                                 *)
(***************************************************************************)
\* expired 2016-06-28; events 2015-07-01 (23:59:60 the day before) and
\* 2017-01-01
NistStale == << Comment, NistExpires(1467072000),
                Leap(2015, "Jun", 30, 23, 59, 60),
                Leap(2016, "Dec", 31, 23, 59, 60) >>
\* expires 2017-12-28
NistFresh == << Comment, NistExpires(1514419200),
                Leap(2015, "Jun", 30, 23, 59, 60),
                Leap(2016, "Dec", 31, 23, 59, 60) >>
NistJunk == << Comment, Junk >>

ResolveUnixInputs == {1435708800}
ResolveGpsInputs == {1119744017}

InodeOf == [p \in Paths |->
              CASE p = "USER" -> 1 [] p = "SYS" -> 2 [] p = "PAK" -> 3
                [] p = "ENV" -> 4 [] p = "NIST" -> 5 [] p = "IETF" -> 6
                [] OTHER -> 0]

InitResolve ==
    /\ now = Now0
    /\ \E user \in {<<>>, DocStale, DocFresh, DocJunk},
          sys \in {<<>>, DocEdge, DocJunk},
          pak \in {<<>>, DocStale, DocFresh},
          env \in {<<>>, DocStale, DocJunk},
          nist \in {<<>>, NistStale, NistFresh, NistJunk},
          ietf \in {<<>>, DocStale, DocFresh} :
         LET content == [p \in Paths |->
                           CASE p = "USER" -> user [] p = "SYS" -> sys
                             [] p = "PAK" -> pak [] p = "ENV" -> env
                             [] p = "NIST" -> nist [] p = "IETF" -> ietf
                             [] OTHER -> <<>>]
         IN /\ dir = [p \in Paths |->
                        IF content[p] = <<>> THEN 0 ELSE InodeOf[p]]
            /\ inode = [n \in 1..NInodes |->
                          IF \E p \in Paths : dir[p] = n
                          THEN content[CHOOSE p \in Paths : dir[p] = n]
                          ELSE <<>>]
    /\ env_leapfile \in {"", "ENV"}
    /\ env_leapfile = "" => dir["ENV"] = 0
    /\ module = "unloaded"
    /\ LEAPDATA = <<>>
    /\ LEAPDATA_EXPIRE = 0
    /\ tried = <<>>
    /\ leaps = NoLeapData
    /\ proc = [p \in Procs |-> NoFetch]
    /\ call = NoCall
    /\ prev = NoCall
    /\ InitSession

\* import of gpstime.leaps: LEAPDATA = LeapData(), which ends with the
\* warning "Leap second data is expired." if self.expired
LeapDataInit ==
    /\ leaps.state = "unloaded"
    /\ leaps' = LeapData_init(dir, inode, now)
    /\ verdict' = IF leaps'.state = "raised" THEN verdict
                  ELSE [place |-> "LeapData.__init__",
                        expires |-> leaps'.expires, at |-> now,
                        expired |-> expired(leaps'.expires, now)]
    /\ UNCHANGED <<now, env_leapfile, fsvars, module, LEAPDATA,
                   LEAPDATA_EXPIRE, tried, proc, callvars, upd, cli, gt,
                   tzlocal, parsed>>

\* for ls in LEAPDATA (LeapData.__iter__): raises when there is no data
IterLeaps ==
    /\ leaps.state = "loaded"
    /\ call' = [op |-> IF leaps.data = <<>> THEN "iter_raised" ELSE "iter",
                arg |-> 0, ret |-> Len(leaps.data)]
    /\ prev' = call
    /\ UNCHANGED <<sessionvars, now, env_leapfile, fsvars, tablevars, proc>>

Tick ==
    /\ now < Now0 + MaxTicks
    /\ now' = now + 1
    /\ UNCHANGED <<sessionvars, env_leapfile, fsvars, tablevars, proc, callvars>>

NextResolve ==
    \/ Import
    \/ LeapDataInit
    \/ Tick
    \/ IterLeaps
    \/ \E u \in ResolveUnixInputs : CallUnix2gps(u)
    \/ \E g \in ResolveGpsInputs : CallGps2unix(g)

SpecResolve == InitResolve /\ [][NextResolve]_vars

(***************************************************************************)
(* Refresh of the leap table.  LeapData.update_local (leaps.py) and        *)
(* update_leapdata (gpstime) return at once on a table they take as valid  *)
(* and otherwise fetch the bulletin into the user cache, in the process    *)
(* Self, through the steps of the fetch above; UpdateReturn is the rest of *)
(* the call once the fetch returned or raised.  main of the command line   *)
(* calls update_leapdata when is_leapdata_expired() or IETF_UPDATE is      *)
(* FORCE, catching RuntimeError only.                                      *)
(***************************************************************************)
Self == 1

\* is_leapdata_expired() of the gpstime package, which __main__ imports:
\* the active table is expired when its expiry is not after the clock
is_leapdata_expired(expire, t) == expire <= t

\* str.upper() on the values of IETF_UPDATE used here
upper(string) ==
    CASE string = "force" -> "FORCE"
      [] string = "no" -> "NO"
      [] string = "false" -> "FALSE"
      [] OTHER -> string

IetfUpdateValues == {"", "FALSE", "NO", "no", "FORCE", "force"}

Returned(caller, via) ==
    upd' = [caller |-> caller, via |-> via, pc |-> "returned",
            fetched |-> FALSE, exc |-> "none"]

Fetching(caller, via, impl) ==
    /\ proc[Self].pc = "idle"
    /\ proc[Self].runs < MaxFetches
    /\ upd' = [caller |-> caller, via |-> via, pc |-> "fetching",
               fetched |-> TRUE, exc |-> "none"]
    /\ SetProc(Self, [NoFetch EXCEPT !.pc = "get", !.impl = impl,
                                     !.runs = proc[Self].runs + 1])

\* update_leapdata() up to its early return or the call of __ietf_retrieve
update_leapdata_enter(via) ==
    /\ verdict' = [place |-> "update_leapdata", expires |-> LEAPDATA_EXPIRE,
                   at |-> now, expired |-> ~(LEAPDATA_EXPIRE >= now)]
    /\ IF LEAPDATA_EXPIRE >= now
       THEN Returned("update_leapdata", via) /\ proc' = proc
       ELSE Fetching("update_leapdata", via, "__ietf_retrieve")

\* update_leapdata() called by a user of the package
CallUpdateLeapdata ==
    /\ module = "loaded"
    /\ upd.pc # "fetching"
    /\ cli.pc = "off"
    /\ update_leapdata_enter("api")
    /\ UNCHANGED <<now, env_leapfile, fsvars, tablevars, callvars, cli, gt,
                   tzlocal, parsed>>

\* LEAPDATA.update_local() up to its early return or the call of
\* fetch_ietf_leapfile; "self.data and not self.expired" reads the clock
\* only when there is data
CallUpdateLocal ==
    /\ leaps.state = "loaded"
    /\ upd.pc # "fetching"
    /\ cli.pc = "off"
    /\ verdict' = IF leaps.data = <<>> THEN verdict
                  ELSE [place |-> "LeapData.update_local",
                        expires |-> leaps.expires, at |-> now,
                        expired |-> expired(leaps.expires, now)]
    /\ IF leaps.data # <<>> /\ ~expired(leaps.expires, now)
       THEN Returned("update_local", "api") /\ proc' = proc
       ELSE Fetching("update_local", "api", "fetch_ietf_leapfile")
    /\ UNCHANGED <<now, env_leapfile, fsvars, tablevars, callvars, cli, gt,
                   tzlocal, parsed>>

\* LEAPDATA.expired read by a user of the package
QueryExpired ==
    /\ leaps.state = "loaded"
    /\ verdict' = [place |-> "LeapData.expired", expires |-> leaps.expires,
                   at |-> now, expired |-> expired(leaps.expires, now)]
    /\ UNCHANGED <<now, env_leapfile, fsvars, tablevars, proc, callvars, upd,
                   cli, gt, tzlocal, parsed>>

\* main() from os.getenv('IETF_UPDATE') to the return of update_leapdata
\* or the start of its fetch
Main(IETF_UPDATE) ==
    /\ cli.pc = "off"
    /\ module = "loaded"
    /\ upd.pc # "fetching"
    /\ LET ietf_update == upper(IETF_UPDATE) IN
       IF is_leapdata_expired(LEAPDATA_EXPIRE, now) \/ ietf_update = "FORCE"
       THEN /\ update_leapdata_enter("main")
            /\ cli' = [pc |-> IF LEAPDATA_EXPIRE >= now THEN "args"
                              ELSE "updating",
                       ietf_update |-> ietf_update, warned |-> FALSE]
       ELSE /\ cli' = [pc |-> "args", ietf_update |-> ietf_update,
                       warned |-> FALSE]
            /\ verdict' = [place |-> "is_leapdata_expired",
                           expires |-> LEAPDATA_EXPIRE, at |-> now,
                           expired |-> FALSE]
            /\ UNCHANGED <<upd, proc>>
    /\ UNCHANGED <<now, env_leapfile, fsvars, tablevars, callvars, gt,
                   tzlocal, parsed>>

\* The exception a refresh ends with, "none" when it returns: _load turns
\* whatever fetch_ietf_leapfile raises into RuntimeError; update_leapdata
\* lets the exception of requests out of __ietf_retrieve and, after a
\* completed retrieve, parses the cache file, where a line that is not a
\* row raises ValueError.
update_exception(caller, fetched_ok, r) ==
    IF caller = "update_local"
    THEN IF fetched_ok THEN "none" ELSE "RuntimeError"
    ELSE IF ~fetched_ok THEN "RequestException"
    ELSE IF r.ok THEN "none" ELSE "ValueError"

\* the rest of the refresh after its fetch, and of the try block of main
UpdateReturn ==
    /\ upd.pc = "fetching"
    /\ proc[Self].pc \in {"done", "failed"}
    /\ LET r == ietf_parse_leapfile(dir, inode, "USER")
           exc == update_exception(upd.caller, proc[Self].pc = "done", r)
       IN /\ upd' = [upd EXCEPT !.pc = IF exc = "none" THEN "returned"
                                       ELSE "raised",
                                !.exc = exc]
          /\ leaps' = IF upd.caller = "update_local" /\ exc = "none"
                      THEN [leaps EXCEPT !.data = proc[Self].res.data,
                                         !.expires = proc[Self].res.expires]
                      ELSE leaps
          /\ IF upd.caller = "update_leapdata" /\ exc = "none"
             THEN LEAPDATA' = r.data /\ LEAPDATA_EXPIRE' = r.expires
             ELSE UNCHANGED <<LEAPDATA, LEAPDATA_EXPIRE>>
          /\ cli' = IF upd.via # "main" THEN cli
                    ELSE IF exc = "none" THEN [cli EXCEPT !.pc = "args"]
                    ELSE IF exc = "RuntimeError"
                    THEN [cli EXCEPT !.pc = "args", !.warned = TRUE]
                    ELSE [cli EXCEPT !.pc = "aborted"]
    /\ SetProc(Self, [NoFetch EXCEPT !.pc = "idle", !.runs = proc[Self].runs])
    /\ UNCHANGED <<now, env_leapfile, fsvars, module, tried, callvars,
                   verdict, gt, tzlocal, parsed>>

\* main() after the update: gt = gpstime.parse('') and the GPS line
MainPrint ==
    /\ cli.pc = "args"
    /\ LET g == parse(StrArg(<<>>), now, tzlocal, LEAPDATA) IN
       /\ gt' = [made |-> g.made, input |-> StrArg(<<>>), unix |-> g.unix,
                 tz |-> g.tz]
       /\ call' = [op |-> "gps", arg |-> dt2ts(g),
                   ret |-> unix2gps(dt2ts(g), LEAPDATA)]
    /\ prev' = call
    /\ cli' = [cli EXCEPT !.pc = "done"]
    /\ UNCHANGED <<now, env_leapfile, fsvars, tablevars, proc, verdict, upd,
                   tzlocal, parsed>>

\* the steps of __ietf_retrieve in a refresh
RetrieveSteps ==
    \/ HttpGetError(Self)
    \/ \E ok \in BOOLEAN, body \in ServerDocs : HttpGet(Self, ok, body)
    \/ RaiseForStatus(Self)
    \/ OpenTmp(Self)
    \/ WriteChunk(Self)
    \/ StreamError(Self)
    \/ CloseTmp(Self)
    \/ RenameTmp(Self)

\* the steps of the fetch of a refresh; fetch_ietf_leapfile has the parse
RefreshFetch == RetrieveSteps \/ ParseTmp(Self)

InitRefresh ==
    /\ now = Now0
    /\ \E user \in {<<>>, DocStale, DocEdge, DocFresh},
          pak \in {<<>>, DocStale},
          ietf \in {<<>>, DocStale} :
         LET content == [p \in Paths |->
                           CASE p = "USER" -> user [] p = "PAK" -> pak
                             [] p = "IETF" -> ietf [] OTHER -> <<>>]
         IN /\ dir = [p \in Paths |->
                        IF content[p] = <<>> THEN 0 ELSE InodeOf[p]]
            /\ inode = [n \in 1..NInodes |->
                          IF \E p \in Paths : dir[p] = n
                          THEN content[CHOOSE p \in Paths : dir[p] = n]
                          ELSE <<>>]
    /\ env_leapfile = ""
    /\ module = "unloaded"
    /\ LEAPDATA = <<>>
    /\ LEAPDATA_EXPIRE = 0
    /\ tried = <<>>
    /\ leaps = NoLeapData
    /\ proc = [p \in Procs |-> IF p = Self THEN [NoFetch EXCEPT !.pc = "idle"]
                               ELSE NoFetch]
    /\ call = NoCall
    /\ prev = NoCall
    /\ InitSession

NextRefresh ==
    \/ Import
    \/ LeapDataInit
    \/ CallUpdateLocal
    \/ CallUpdateLeapdata
    \/ RefreshFetch
    \/ UpdateReturn
    \/ CallParse(NowArg)
    \/ CallGps

SpecRefresh == InitRefresh /\ [][NextRefresh]_vars

\* The expiry tests of a process over the seconds around the expiry of its
\* files: at import, at a query, and at the entry of a refresh (whose fetch
\* is not followed here).
InitExpiry ==
    /\ now = Now0
    /\ \E user \in {<<>>, DocStale, DocEdge, DocFresh},
          env \in {<<>>, DocStale, DocEdge, DocFresh},
          ietf \in {<<>>, DocStale, DocEdge} :
         LET content == [p \in Paths |->
                           CASE p = "USER" -> user [] p = "ENV" -> env
                             [] p = "IETF" -> ietf [] OTHER -> <<>>]
         IN /\ dir = [p \in Paths |->
                        IF content[p] = <<>> THEN 0 ELSE InodeOf[p]]
            /\ inode = [n \in 1..NInodes |->
                          IF \E p \in Paths : dir[p] = n
                          THEN content[CHOOSE p \in Paths : dir[p] = n]
                          ELSE <<>>]
    /\ env_leapfile = IF dir["ENV"] = 0 THEN "" ELSE "ENV"
    /\ module = "unloaded"
    /\ LEAPDATA = <<>>
    /\ LEAPDATA_EXPIRE = 0
    /\ tried = <<>>
    /\ leaps = NoLeapData
    /\ proc = [p \in Procs |-> IF p = Self THEN [NoFetch EXCEPT !.pc = "idle"]
                               ELSE NoFetch]
    /\ call = NoCall
    /\ prev = NoCall
    /\ InitSession

NextExpiry ==
    \/ Import
    \/ LeapDataInit
    \/ Tick
    \/ QueryExpired
    \/ CallUpdateLocal
    \/ CallUpdateLeapdata

SpecExpiry == InitExpiry /\ [][NextExpiry]_vars

NextMain ==
    \/ Import
    \/ Tick
    \/ \E IETF_UPDATE \in IetfUpdateValues : Main(IETF_UPDATE)
    \/ RetrieveSteps
    \/ UpdateReturn
    \/ MainPrint

SpecMain == InitRefresh /\ [][NextMain]_vars

(***************************************************************************)
(* Files and responses with events at or before the GPS epoch, as every    *)
(* published bulletin has: import, LeapData(), the two refreshes with      *)
(* their fetch, and conversions at the epoch and after it.                 *)
(***************************************************************************)
\* expires 2017-12-28; after the bookkeeping row (1972-01-01) the events
\* 1972-07-01, 1980-01-01 (five days before the epoch) and 1981-07-01
EpochBulletin == << Expires(37234, 8000), Row(22720, 60800, 10),
                    Row(22877, 85600, 11), Row(25245, 21600, 19),
                    Row(25717, 82400, 20) >>
\* expires 2017-12-28; rows at GPS0 and at GPS0 + 1
EpochEdge == << Expires(37234, 8000), Row(22720, 60800, 10),
                Row(25249, 53600, 19), Row(25249, 53601, 20) >>
\* expires 2017-12-28; events 1972-07-01, 1980-01-01 and 1981-07-01
NistEpoch == << NistExpires(1514419200),
                Leap(1972, "Jun", 30, 23, 59, 60),
                Leap(1979, "Dec", 31, 23, 59, 60),
                Leap(1981, "Jun", 30, 23, 59, 60) >>

EpochServerDocs == {EpochBulletin, DocJunk}
EpochUnixInputs == {GPS0, 362793600}
EpochGpsInputs == {0, 46828801}

InitEpoch ==
    /\ now = Now0
    /\ \E user \in {<<>>, DocStale, EpochEdge},
          pak \in {<<>>, EpochBulletin},
          nist \in {<<>>, NistEpoch},
          ietf \in {<<>>, EpochBulletin} :
         LET content == [p \in Paths |->
                           CASE p = "USER" -> user [] p = "PAK" -> pak
                             [] p = "NIST" -> nist [] p = "IETF" -> ietf
                             [] OTHER -> <<>>]
         IN /\ dir = [p \in Paths |->
                        IF content[p] = <<>> THEN 0 ELSE InodeOf[p]]
            /\ inode = [n \in 1..NInodes |->
                          IF \E p \in Paths : dir[p] = n
                          THEN content[CHOOSE p \in Paths : dir[p] = n]
                          ELSE <<>>]
    /\ env_leapfile = ""
    /\ module = "unloaded"
    /\ LEAPDATA = <<>>
    /\ LEAPDATA_EXPIRE = 0
    /\ tried = <<>>
    /\ leaps = NoLeapData
    /\ proc = [p \in Procs |-> IF p = Self THEN [NoFetch EXCEPT !.pc = "idle"]
                               ELSE NoFetch]
    /\ call = NoCall
    /\ prev = NoCall
    /\ InitSession

\* the steps of the fetch of a refresh when the server publishes
\* EpochServerDocs
EpochFetch ==
    \/ HttpGetError(Self)
    \/ \E ok \in BOOLEAN, body \in EpochServerDocs : HttpGet(Self, ok, body)
    \/ RaiseForStatus(Self)
    \/ OpenTmp(Self)
    \/ WriteChunk(Self)
    \/ StreamError(Self)
    \/ CloseTmp(Self)
    \/ ParseTmp(Self)
    \/ RenameTmp(Self)

NextEpoch ==
    \/ Import
    \/ LeapDataInit
    \/ CallUpdateLocal
    \/ CallUpdateLeapdata
    \/ EpochFetch
    \/ UpdateReturn
    \/ \E u \in EpochUnixInputs : CallUnix2gps(u)
    \/ \E g \in EpochGpsInputs : CallGps2unix(g)

SpecEpoch == InitEpoch /\ [][NextEpoch]_vars

(***************************************************************************)
(* The three parsers called on one path, which is missing or holds any     *)
(* document of at most MaxLines lines.                                     *)
(***************************************************************************)
ParseLines ==
    { Comment, Blank, Junk, Expires(37234, 8000), BadExpires,
      Row(36446, 97600, 36), Row(36922, 17600, 37),
      RowBadOffset(36922, 17600), NistExpires(1514419200),
      Leap(2016, "Dec", 31, 23, 59, 60) }
ParseDocs == UNION { [1..n -> ParseLines] : n \in 0..MaxLines }

InitParse ==
    /\ now = Now0
    /\ env_leapfile = ""
    /\ \E exists \in BOOLEAN, doc \in ParseDocs :
         /\ ~exists => doc = <<>>
         /\ dir = [NoFiles EXCEPT !["SYS"] = IF exists THEN InodeOf["SYS"]
                                            ELSE 0]
         /\ inode = [NoInodes EXCEPT ![InodeOf["SYS"]] = doc]
    /\ module = "unloaded"
    /\ LEAPDATA = <<>>
    /\ LEAPDATA_EXPIRE = 0
    /\ tried = <<>>
    /\ leaps = NoLeapData
    /\ proc = [p \in Procs |-> NoFetch]
    /\ call = NoCall
    /\ prev = NoCall
    /\ InitSession

ParserReturns(parser, path, ret) ==
    /\ parsed' = [parser |-> parser, path |-> path, ret |-> ret]
    /\ UNCHANGED <<now, env_leapfile, fsvars, tablevars, proc, callvars,
                   verdict, upd, cli, gt, tzlocal>>

CallIetfParseLeapfile(path) ==
    ParserReturns("__ietf_parse_leapfile", path,
                  ietf_parse_leapfile(dir, inode, path))

CallLoadIETF(path) ==
    ParserReturns("load_IETF", path, load_IETF(dir, inode, path))

CallLoadNIST(path) ==
    ParserReturns("load_NIST", path, load_NIST(dir, inode, path))

NextParse ==
    \/ CallIetfParseLeapfile("SYS")
    \/ CallLoadIETF("SYS")
    \/ CallLoadNIST("SYS")

SpecParse == InitParse /\ [][NextParse]_vars

(***************************************************************************)
(* Round trips, closed form and monotonicity of the conversions.           *)
(***************************************************************************)
\* The GPS second g is the second inserted by the i-th event of the table:
\* the event's own instant has GPS value leap - GPS0 + i.
IsLeapSecond(g, table) ==
    \E i \in DOMAIN table : g = table[i][1] - GPS0 + i - 1

GpsTrip ==
    /\ prev.op = "gps2unix"
    /\ call.op = "unix2gps"
    /\ call.arg = prev.ret
    /\ prev.arg >= 0
    /\ StrictlyIncreasing(LEAPDATA)

UnixTrip ==
    /\ prev.op = "unix2gps"
    /\ call.op = "gps2unix"
    /\ call.arg = prev.ret
    /\ prev.arg >= GPS0
    /\ StrictlyIncreasing(LEAPDATA)

\* C1 as stated: unix2gps(gps2unix(g)) = g for every integer g >= 0,
\* inserted leap seconds included.
C1_GpsRoundTripEveryG == GpsTrip => call.ret = prev.arg

\* C1 amended: unix2gps(gps2unix(g)) = g for every integer g >= 0 that is
\* not an inserted leap second of a strictly increasing table; for an
\* inserted leap second the round trip returns g - 1.
C1_GpsRoundTrip ==
    GpsTrip =>
        call.ret = IF IsLeapSecond(prev.arg, LEAPDATA) THEN prev.arg - 1
                   ELSE prev.arg

C1_Witness ==
    /\ GpsTrip
    /\ Len(LEAPDATA) >= 2
    /\ prev.arg + GPS0 > LEAPDATA[2][1] + 2
    /\ ~IsLeapSecond(prev.arg, LEAPDATA)
    /\ prev.ret = prev.arg + GPS0 - 2
    /\ call.ret = prev.arg

\* C2: gps2unix(unix2gps(u)) = u for every integer u >= GPS0 and every
\* strictly increasing table.
C2_UnixRoundTrip == UnixTrip => call.ret = prev.arg

C2_Witness ==
    /\ UnixTrip
    /\ Len(LEAPDATA) >= 2
    /\ prev.arg = LEAPDATA[2][1]
    /\ LEAPDATA[2][1] = LEAPDATA[1][1] + 1
    /\ prev.ret = prev.arg - GPS0 + 2
    /\ call.ret = prev.arg

\* C4: unix2gps(u) = u - GPS0 + the number of events with instant <= u;
\* an input equal to an event's instant counts that event.
EventsUpTo(u, table) == { i \in DOMAIN table : table[i][1] <= u }

C4_Unix2gpsCountsEvents ==
    call.op = "unix2gps" =>
        call.ret = call.arg - GPS0 + Cardinality(EventsUpTo(call.arg, LEAPDATA))

C4_Witness ==
    /\ call.op = "unix2gps"
    /\ Len(LEAPDATA) = MaxLeaps
    /\ call.arg = LEAPDATA[1][1]
    /\ call.arg < LEAPDATA[2][1]
    /\ call.ret = call.arg - GPS0 + 1

\* C5: t1 < t2 implies unix2gps(t1) <= unix2gps(t2), for any sorted table.
C5_Monotone ==
    (prev.op = "unix2gps" /\ call.op = "unix2gps") =>
        /\ prev.arg < call.arg => prev.ret <= call.ret
        /\ call.arg < prev.arg => call.ret <= prev.ret

C5_Witness ==
    /\ prev.op = "unix2gps"
    /\ call.op = "unix2gps"
    /\ Len(LEAPDATA) >= 1
    /\ prev.arg < LEAPDATA[1][1]
    /\ call.arg >= LEAPDATA[1][1]
    /\ prev.ret < call.ret

\* C19: for every strictly increasing table, events one second apart
\* included, gps2unix(g) is the largest UNIX second u with unix2gps(u) <= g.
UnixCandidates == (GPS0 - MaxLeaps - 1) .. (GPS0 + Span + MaxLeaps + 3)

C19_Gps2unixIsLargestPreimage ==
    (call.op = "gps2unix" /\ call.arg >= 0 /\ StrictlyIncreasing(LEAPDATA)) =>
        /\ call.ret \in UnixCandidates
        /\ unix2gps(call.ret, LEAPDATA) <= call.arg
        /\ \A u \in UnixCandidates :
               u > call.ret => unix2gps(u, LEAPDATA) > call.arg

C19_Witness ==
    /\ call.op = "gps2unix"
    /\ Len(LEAPDATA) >= 2
    /\ LEAPDATA[2][1] = LEAPDATA[1][1] + 1
    /\ IsLeapSecond(call.arg, LEAPDATA)
    /\ call.arg = LEAPDATA[2][1] - GPS0 + 1
    /\ call.ret = LEAPDATA[2][1] - 1
    /\ unix2gps(call.ret + 1, LEAPDATA) = call.arg + 1

(***************************************************************************)
(* What the parsers raise on.                                              *)
(***************************************************************************)
ParsedMissing == dir[parsed.path] = 0
ParsedDoc == inode[dir[parsed.path]]

\* the document has no line that the parser reads as its expiry header
NoExpiryHeader(parser, doc) ==
    IF parser = "load_NIST"
    THEN \A i \in DOMAIN doc : doc[i].kind # "nist_expires"
    ELSE \A i \in DOMAIN doc : doc[i].kind \notin {"expires", "expires_bad"}

\* the document has a line with text where a number is expected
HasNonNumber(doc) ==
    \E i \in DOMAIN doc : doc[i].kind \in {"junk", "expires_bad", "rowx"}

\* line i is one the parser raises on: a field that the parser converts is
\* missing or is not a number.  load_IETF converts the expiry and the first
\* field of every data line but the first; load_NIST takes fields 2-6 of a
\* data line as a date.
IsEntry(line) == line.kind \in {"junk", "row", "rowx", "leap"}

Unreadable(parser, doc, i) ==
    CASE parser = "__ietf_parse_leapfile" ->
            doc[i].kind \in {"junk", "blank", "expires_bad", "rowx", "leap"}
      [] parser = "load_IETF" ->
            \/ doc[i].kind = "expires_bad"
            \/ /\ doc[i].kind \in {"junk", "leap"}
               /\ \E j \in 1..(i - 1) : IsEntry(doc[j])
      [] parser = "load_NIST" -> doc[i].kind \in {"junk", "row", "rowx"}

\* C16 as stated: a parser fails when the document has no expiry header,
\* when the file does not exist, or when a numeric field is not a number.
C16_ParseFailsOnBadDocument ==
    parsed.parser # "none" =>
        ((\/ ParsedMissing
          \/ NoExpiryHeader(parsed.parser, ParsedDoc)
          \/ HasNonNumber(ParsedDoc)) => ~parsed.ret.ok)

\* C16 amended: a parser raises exactly when a field it converts is missing
\* or not a number and, for load_IETF and load_NIST, when the file does not
\* exist; __ietf_parse_leapfile gives an empty table with expiry 0 for a
\* missing file, and a document without expiry header parses to a table
\* with expiry 0.
C16_ParseErrors ==
    parsed.parser # "none" =>
        IF ParsedMissing
        THEN IF parsed.parser = "__ietf_parse_leapfile"
             THEN parsed.ret = [ok |-> TRUE, data |-> <<>>, expires |-> 0]
             ELSE ~parsed.ret.ok
        ELSE /\ parsed.ret.ok <=>
                    ~\E i \in DOMAIN ParsedDoc :
                         Unreadable(parsed.parser, ParsedDoc, i)
             /\ (parsed.ret.ok /\ NoExpiryHeader(parsed.parser, ParsedDoc))
                    => parsed.ret.expires = 0

C16_Witness ==
    /\ parsed.parser = "load_IETF"
    /\ ~ParsedMissing
    /\ NoExpiryHeader("load_IETF", ParsedDoc)
    /\ Len(ParsedDoc) = MaxLines
    /\ \A i \in DOMAIN ParsedDoc : ParsedDoc[i].kind = "row"
    /\ parsed.ret.ok
    /\ parsed.ret.expires = 0
    /\ Len(parsed.ret.data) = MaxLines - 1

(***************************************************************************)
(* gpstime.parse and iso().                                                *)
(***************************************************************************)
\* C17: parse takes its branches in the order empty or 'now' -> the current
\* instant, numeric literal -> GPS time through fromgps, anything else ->
\* the calendar-string parser; every input that converts to a number, zero
\* included, is read as GPS time.
C17_ParsePrecedence ==
    gt.input.type # "none" =>
        IF gt.input \in {StrArg(<<>>), NowArg}
        THEN gt.made = "now" /\ gt.unix = now
        ELSE IF float(gt.input).ok
        THEN /\ gt.made = "fromgps"
             /\ gt.unix = gps2unix(float(gt.input).val, LEAPDATA)
        ELSE gt.made \in {"cudate", "GPSTimeException"}

\* C18: iso() is the UTC time of the instant with the suffix Z, whatever
\* the zone of the object.
C18_IsoIsUTC ==
    call.op = "iso" => call.ret = strftime_ISO_FORMAT(call.arg)

(***************************************************************************)
(* Regression vectors on the table loaded from the published bulletin.     *)
(***************************************************************************)
Gps2unixIs(g, u) == (call.op = "gps2unix" /\ call.arg = g) => call.ret = u
Unix2gpsIs(u, g) == (call.op = "unix2gps" /\ call.arg = u) => call.ret = g

\* C3: with the table loaded from the IETF bulletin, the conversions of
\* test_conversion, test_conversion_past and test_conversion_onleap return
\* the listed values.
C3_RegressionVectors ==
    /\ Gps2unixIs(1133585676, 1449550459)
    /\ Unix2gpsIs(1449550459, 1133585676)
    /\ Gps2unixIs(123456789, 439421586)
    /\ Unix2gpsIs(439421586, 123456789)
    /\ Gps2unixIs(425520006, 741484798)
    /\ Gps2unixIs(425520007, 741484799)
    /\ Gps2unixIs(425520008, 741484799)
    /\ Gps2unixIs(425520009, 741484800)
    /\ Unix2gpsIs(741484798, 425520006)
    /\ Unix2gpsIs(741484799, 425520007)
    /\ Unix2gpsIs(741484800, 425520009)

C3_Witness ==
    /\ module = "loaded"
    /\ Len(LEAPDATA) = 18
    /\ prev = [op |-> "unix2gps", arg |-> 741484800, ret |-> 425520009]
    /\ call = [op |-> "gps2unix", arg |-> 425520008, ret |-> 741484799]

(***************************************************************************)
(* The user cache file under fetches.                                      *)
(***************************************************************************)
Dest == inode[dir["USER"]]

\* a document as it was published or as the cache held it, whole
Complete(content) == content \in ServerDocs \cup {DocStale}

\* a document that a parser of the program reads without raising
Parseable(content) ==
    load_IETF_lines(content).ok \/ ietf_parse_lines(content).ok

\* C7: under concurrent fetches a reader of the user cache sees a
\* complete document, old or new, never a partial one.
C7_ReadersSeeCompleteFile == dir["USER"] # 0 => Complete(Dest)

\* C6: the user cache is replaced only by a completely written document
\* that parsed; in every state of a fetch, failed or stopped at any step,
\* the cache holds a complete, parseable document.
C6_FetchAtomic == dir["USER"] # 0 => (Complete(Dest) /\ Parseable(Dest))

(***************************************************************************)
(* Resolution order, parse failures and degraded mode.                     *)
(***************************************************************************)
IsPrefix(a, b) == Len(a) <= Len(b) /\ \A i \in DOMAIN a : a[i] = b[i]

\* what the constructor of LeapData reads from a path
LeapsParse(path) ==
    IF path = "NIST" THEN load_NIST(dir, inode, path)
    ELSE load_IETF(dir, inode, path)

\* a table that ends each resolution: __load_leapdata returns on
\* expire >= now, LeapData stops loading on data that is not expired
UsableAtImport(path) == ietf_parse_leapfile(dir, inode, path).expires >= now
UsableInLeapData(path) ==
    LeapsParse(path).data # <<>> /\ ~expired(LeapsParse(path).expires, now)

\* priority the claim gives: override, user cache, system and packaged
ClaimedRank(path) ==
    CASE path = "ENV" -> 0 [] path = "USER" -> 1 [] OTHER -> 2

InClaimedOrder(seq) ==
    \A i, j \in DOMAIN seq : i < j => ClaimedRank(seq[i]) <= ClaimedRank(seq[j])

NothingAfterUsable ==
    /\ \A i \in 1..(Len(tried) - 1) : ~UsableAtImport(tried[i])
    /\ \A i \in 1..(Len(leaps.tried) - 1) : ~UsableInLeapData(leaps.tried[i])

\* C8 as stated: both resolutions try override, then user cache, then the
\* system and packaged files, and load nothing after the first candidate
\* that parses and is not expired.
C8_OverrideUserSystemOrder ==
    /\ InClaimedOrder(tried)
    /\ InClaimedOrder(leaps.tried)
    /\ NothingAfterUsable

LeapDataOrder == <<"NIST", "IETF", "USER">>
ExistingLeapFiles == SelectSeq(LeapDataOrder, LAMBDA path : dir[path] # 0)

\* C8 amended: each resolution has its own fixed order.  __load_leapdata
\* parses the override alone when IETF_LEAPFILE is set, otherwise user
\* cache, system cache, packaged file; LeapData loads the system NIST file,
\* the system IETF file, then the user cache, skipping missing files.  The
\* first candidate that yields an unexpired table (LeapData: non-empty too)
\* is the active table and nothing is loaded after it.
C8_ResolutionOrder ==
    /\ module # "unloaded" =>
          IF env_leapfile # "" THEN tried = <<env_leapfile>>
          ELSE IsPrefix(tried, LEAPFILES) /\ tried # <<>>
    /\ IsPrefix(leaps.tried, ExistingLeapFiles)
    /\ NothingAfterUsable
    /\ (module = "loaded" /\ env_leapfile = "") =>
          /\ LEAPDATA = ietf_parse_leapfile(dir, inode, tried[Len(tried)]).data
          /\ \A j \in DOMAIN LEAPFILES :
                (UsableAtImport(LEAPFILES[j])
                 /\ \A i \in 1..j : ietf_parse_leapfile(dir, inode, LEAPFILES[i]).ok)
                    => Len(tried) <= j
    /\ (leaps.state = "loaded" /\ leaps.tried # <<>>) =>
          /\ leaps.data = LeapsParse(leaps.tried[Len(leaps.tried)]).data
          /\ \A j \in DOMAIN ExistingLeapFiles :
                (UsableInLeapData(ExistingLeapFiles[j])
                 /\ \A i \in 1..j : LeapsParse(ExistingLeapFiles[i]).ok)
                    => Len(leaps.tried) <= j

C8_Witness ==
    /\ module = "loaded"
    /\ env_leapfile = ""
    /\ tried = <<"USER", "SYS">>
    /\ dir["PAK"] # 0
    /\ LEAPDATA_EXPIRE >= now
    /\ Len(LEAPDATA) = 2
    /\ leaps.state = "loaded"
    /\ leaps.tried = <<"NIST", "IETF">>
    /\ dir["USER"] # 0
    /\ leaps.data = <<1435708800, 1483228800>>

\* C9: a candidate that exists but fails to parse is skipped: the
\* resolution that read it does not abort and goes on to the next
\* candidate.
C9_ParseFailureSkipped ==
    /\ \A i \in DOMAIN tried :
          ~ietf_parse_leapfile(dir, inode, tried[i]).ok =>
              /\ module = "loaded"
              /\ (env_leapfile = "" /\ i < Len(LEAPFILES)) => i < Len(tried)
    /\ \A i \in DOMAIN leaps.tried :
          ~LeapsParse(leaps.tried[i]).ok =>
              /\ leaps.state = "loaded"
              /\ i < Len(ExistingLeapFiles) => i < Len(leaps.tried)

\* every candidate is missing or was expired before the process started
AllMissingOrExpired ==
    \A i \in DOMAIN LEAPFILES :
        /\ ietf_parse_leapfile(dir, inode, LEAPFILES[i]).ok
        /\ ietf_parse_leapfile(dir, inode, LEAPFILES[i]).expires < Now0

SomeParsedNonEmpty ==
    \E i \in DOMAIN LEAPFILES :
        /\ dir[LEAPFILES[i]] # 0
        /\ ietf_parse_leapfile(dir, inode, LEAPFILES[i]).data # <<>>

\* C10: when every candidate is missing or expired and at least one
\* parsed, resolution ends, without failing, with a non-empty table that
\* reports expired; and no conversion returns a value computed over an
\* empty table.
C10_DegradedNeverEmpty ==
    /\ (module # "unloaded" /\ env_leapfile = ""
        /\ AllMissingOrExpired /\ SomeParsedNonEmpty) =>
          /\ module = "loaded"
          /\ LEAPDATA # <<>>
          /\ LEAPDATA_EXPIRE < now
    /\ call.op \in {"unix2gps", "gps2unix"} => LEAPDATA # <<>>
    /\ call.op = "iter" => leaps.data # <<>>

(***************************************************************************)
(* Expiry tests and refresh.                                               *)
(***************************************************************************)
\* C11: wherever the program tests expiry, the table is taken as expired
\* exactly when its expiry is at or before the clock at the moment of the
\* test (expiry = now counts as expired), at load as at every later query.
C11_ExpiredIffExpiryReached ==
    verdict.place # "none" =>
        (verdict.expired <=> verdict.expires <= verdict.at)

\* the table the refresh of a caller works on is non-empty and not expired
ValidTable(caller) ==
    IF caller = "update_local"
    THEN leaps.data # <<>> /\ leaps.expires > now
    ELSE LEAPDATA # <<>> /\ LEAPDATA_EXPIRE > now

\* a refresh is called in this step
RefreshCalled == upd.pc # "fetching" /\ upd' # upd

\* C12: a refresh called on a non-empty, unexpired table, without a forced
\* update, returns at once: no fetch is started, no file is written, and
\* the active tables and their expiries are unchanged.
C12_RefreshNoOpOnValidTable ==
    [][(RefreshCalled /\ ValidTable(upd'.caller)) =>
           /\ upd'.pc = "returned"
           /\ ~upd'.fetched
           /\ UNCHANGED <<proc, dir, inode, LEAPDATA, LEAPDATA_EXPIRE, leaps>>
      ]_vars

C12_Witness ==
    /\ upd.caller = "update_local"
    /\ upd.pc = "returned"
    /\ ~upd.fetched
    /\ verdict.place = "LeapData.update_local"
    /\ verdict.at = now
    /\ ValidTable("update_local")
    /\ proc[Self].pc = "idle"
    /\ proc[Self].runs = 0
    /\ dir["USER.tmp"] = 0

\* C13: when the fetch of a refresh fails (transport error, non-success
\* status, or a download that does not parse), the active table and expiry
\* stay as they were, the failure is reported as a warning, and the run
\* goes on: nothing is raised past the caller of the refresh.
C13_RefreshFailureRecoverable ==
    [][(upd.pc = "fetching" /\ upd'.pc # "fetching" /\ upd'.exc # "none") =>
           /\ UNCHANGED <<LEAPDATA, LEAPDATA_EXPIRE, leaps>>
           /\ cli'.pc = "args"
           /\ cli'.warned
      ]_vars

\* C14: with IETF_UPDATE=FORCE the command-line run performs a network
\* fetch whatever the expiry of the active table.
C14_ForcedUpdateFetches ==
    (cli.pc # "off" /\ cli.ietf_update = "FORCE") =>
        (upd.via = "main" /\ upd.fetched)

\* C15: with IETF_UPDATE 'FALSE' or 'NO' the command-line run performs no
\* network update, also when the leap data is expired.
C15_SuppressedUpdate ==
    (cli.pc # "off" /\ cli.ietf_update \in {"FALSE", "NO"}) =>
        ~(upd.via = "main" /\ upd.fetched)

(***************************************************************************)
(* gps() of an object made before a refresh.                               *)
(***************************************************************************)
\* C20 as stated: a refresh that replaces the active table after an object
\* was constructed does not change what its gps() returns: two gps() of
\* the same instant return the same value.
C20_SnapshotSemantics ==
    (prev.op = "gps" /\ call.op = "gps" /\ prev.arg = call.arg) =>
        call.ret = prev.ret

\* C20 amended: gps() converts the timestamp of the object with the table
\* that is active when gps() is called; a refresh leaves the object as it
\* is, and changes what gps() returns when the new table has another
\* number of events at or before the instant.
C20_GpsUsesActiveTable ==
    [][/\ (call' # call /\ call'.op = "gps") =>
              /\ call'.arg = dt2ts(gt)
              /\ call'.ret = call'.arg - GPS0
                               + Cardinality(EventsUpTo(call'.arg, LEAPDATA))
       /\ LEAPDATA' # LEAPDATA => gt' = gt
      ]_vars

C20_Witness ==
    /\ prev.op = "gps"
    /\ call.op = "gps"
    /\ prev.arg = call.arg
    /\ call.arg = dt2ts(gt)
    /\ call.ret = prev.ret + 1
    /\ upd.caller = "update_leapdata"
    /\ upd.pc = "returned"
    /\ upd.fetched
    /\ Cardinality(EventsUpTo(call.arg, LEAPDATA)) = 2

(***************************************************************************)
(* Events at or before the GPS epoch.                                      *)
(***************************************************************************)
AfterEpoch(instants) == \A i \in DOMAIN instants : instants[i] > GPS0
LeapInstants(table) == [i \in DOMAIN table |-> table[i][1]]

====
